---- MODULE Spec2Model ----
(***************************************************************************)
(* A model of pymccorrelation.py: the generalized Kendall tau estimator    *)
(* (kendall), the Gaussian perturbation sampler (perturb_values) and the   *)
(* two Monte Carlo drivers (pymcspearman, pymckendall).                    *)
(*                                                                         *)
(* One behaviour of the model is one call of one of the four functions.    *)
(* Arrays are sequences (1-based); the indices numpy draws are kept        *)
(* 0-based, as in the source, and shifted by one where they index.         *)
(* Real values are integers: a Gaussian draw is noise * scale added to the *)
(* location, with noise taken from a bounded sample of non-zero values.    *)
(*                                                                         *)
(* The module imports numpy as _np only, while kendall and pymckendall     *)
(* use the name np.  npBound says whether np resolves when they run: FALSE *)
(* is the module as imported (the first use of np is a NameError), TRUE    *)
(* the module with the alias supplied by the program that embeds it.       *)
(***************************************************************************)
EXTENDS Integers, Sequences, FiniteSets

\* Largest number of points N of a data set.
MaxLen == 3

\* Largest trial count (Nboot, Nperturb, and K of perturb_values).
MaxTrials == 2

\* Python's None, and an argument that was given: Some(v).v is its value.
None == [none |-> TRUE]

Some(v) == [v |-> v]

\* The censor indicators: -1 lower limit, +1 upper limit, 0 detection.
LimVals == {-1, 0, 1}

\* Python's len() of an array argument.
len(s) == Len(s)

--------------------------------------------------------------------------
(* Exceptions a call can end in, and the not-a-number / infinite floats.   *)

NoError == "none"

NaN == [cls |-> "nan"]

IsNaN(v) == v.cls = "nan"

--------------------------------------------------------------------------
(* Small arithmetic helpers over sequences and matrices.                   *)

RECURSIVE SumSeq(_)
SumSeq(s) == IF s = <<>> THEN 0 ELSE Head(s) + SumSeq(Tail(s))

\* np.sum of a matrix given as a sequence of rows.
RECURSIVE SumMat(_)
SumMat(m) == IF m = <<>> THEN 0 ELSE SumSeq(Head(m)) + SumMat(Tail(m))

--------------------------------------------------------------------------
(* kendall: the pair counters a and b.                                     *)

\* The pair counter of x: one entry of the first double loop.
AEntry(xs, lims, i, j) ==
    IF xs[i] = xs[j] THEN 0
    ELSE IF xs[i] > xs[j]
         THEN IF (lims[i] = 0 \/ lims[i] = -1) /\ (lims[j] = 0 \/ lims[j] = 1)
              THEN -1 ELSE 0
         ELSE IF (lims[i] = 0 \/ lims[i] = 1) /\ (lims[j] = 0 \/ lims[j] = -1)
              THEN 1 ELSE 0

\* The pair counter of y: one entry of the second double loop.  Its last
\* branch tests ylim[i] == 0 twice.
BEntry(ys, lims, i, j) ==
    IF ys[i] = ys[j] THEN 0
    ELSE IF ys[i] > ys[j]
         THEN IF (lims[i] = 0 \/ lims[i] = -1) /\ (lims[j] = 0 \/ lims[j] = 1)
              THEN -1 ELSE 0
         ELSE IF (lims[i] = 0 \/ lims[i] = 0) /\ (lims[j] = 0 \/ lims[j] = -1)
              THEN 1 ELSE 0

\* a and b, np.zeros((num,num)) filled by the double loops.
AMatrix(xs, lims) ==
    [i \in 1..len(xs) |-> [j \in 1..len(xs) |-> AEntry(xs, lims, i, j)]]

BMatrix(ys, lims, num) ==
    [i \in 1..num |-> [j \in 1..num |-> BEntry(ys, lims, i, j)]]

\* np.sum(a*b).
SumProd(m1, m2) ==
    SumMat([i \in 1..Len(m1) |-> [j \in 1..Len(m1) |-> m1[i][j] * m2[i][j]]])

\* np.sum(a*np.sum(a,axis=1,keepdims=True)) - np.sum(a*a).
RowTerm(m) ==
    SumMat([i \in 1..Len(m) |-> [j \in 1..Len(m) |-> m[i][j] * SumSeq(m[i])]])
    - SumProd(m, m)

\* var, scaled by the positive factor num*(num-1)*(num-2) (num >= 3).
VarScaled(am, bm, num) ==
    4 * RowTerm(am) * RowTerm(bm) + 2 * (num - 2) * SumProd(am, am) * SumProd(bm, bm)

\* z = S/np.sqrt(var) in numpy floats: the square root of a negative number is
\* nan, 0/0 is nan, S/0 is infinite; tau is z times a positive constant.
TauOf(S, var) ==
    IF var < 0 \/ (var = 0 /\ S = 0) THEN NaN
    ELSE IF var = 0 THEN [cls |-> "inf", S |-> S, var |-> var]
    ELSE [cls |-> "num", S |-> S, var |-> var]

\* pval = st.norm.sf(abs(z))*2: nan exactly when z is.
PvalOf(t) == IF IsNaN(t) THEN NaN ELSE [cls |-> "num", of |-> t]

\* Mutant of DenominatorRaises: the division done in numpy floats, which
\* yields inf or nan and raises nothing.
DenominatorNeverRaises(num) == FALSE

\* 4/(num*(num-1)*(num-2)) divides Python integers: ZeroDivisionError when
\* the product is 0, that is for num in {0, 1, 2}.
DenominatorRaises(num) == num * (num - 1) * (num - 2) = 0

\* kendall(x, y, xlim, ylim) where the name np resolves (bound) or does not.
kendall(xs, ys, xl, yl, bound) ==
    LET num == len(xs)
        am  == AMatrix(xs, xl)
        bm  == BMatrix(ys, yl, num)
        S   == SumProd(am, bm)
        t   == TauOf(S, VarScaled(am, bm, num))
    IN  IF ~bound
        THEN [err |-> "NameError", a |-> <<>>, b |-> <<>>, tau |-> NaN, pval |-> NaN]
        ELSE IF DenominatorRaises(num)
        THEN [err |-> "ZeroDivisionError", a |-> am, b |-> bm, tau |-> NaN, pval |-> NaN]
        ELSE [err |-> NoError, a |-> am, b |-> bm, tau |-> t, pval |-> PvalOf(t)]

--------------------------------------------------------------------------
(* scipy.stats.spearmanr, the rank-correlation primitive the module calls. *)

IsConstant(s) == \A i \in 1..Len(s) : \A j \in 1..Len(s) : s[i] = s[j]

\* Twice the average rank of s[i], ties sharing the mean of their ranks.
Rank2(s, i) ==
    2 * Cardinality({j \in 1..Len(s) : s[j] < s[i]})
    + Cardinality({j \in 1..Len(s) : s[j] = s[i]}) + 1

\* Sum over the points of the product of the centred (doubled) ranks.
RankCov(s, t) ==
    SumSeq([i \in 1..Len(s) |->
              (Rank2(s, i) - (Len(s) + 1)) * (Rank2(t, i) - (Len(s) + 1))])

\* rho is the correlation of the ranks: undefined (nan) when either input is
\* constant, and the p-value is nan exactly when rho is.
_spearmanr(xs, ys) ==
    IF IsConstant(xs) \/ IsConstant(ys)
    THEN [rho |-> NaN, pval |-> NaN]
    ELSE LET r == [cls |-> "num", cov |-> RankCov(xs, ys),
                   vx |-> RankCov(xs, xs), vy |-> RankCov(ys, ys)]
         IN  [rho |-> r, pval |-> [cls |-> "num", of |-> r]]

--------------------------------------------------------------------------
(* numpy: random draws, percentiles.                                       *)

\* np.random.randint(low, high) draws from the half-open range [low, high).
RandintRange(low, high) == low..(high - 1)

\* The index vector of length n that runs through a range in turn.
RunThrough(n, range) == [k \in 1..n |-> (k - 1) % Cardinality(range)]

\* A bounded sample of the T-by-n index matrices over a non-empty range
\* 0..h: every draw collapsed onto the same point (one matrix per point of
\* the range), every draw running through the range, and the two mixtures of
\* a draw that runs through the range with draws collapsed onto single points.
SampleMatrices(T, n, range) ==
    IF n = 0 THEN {[r \in 1..T |-> <<>>]}
    ELSE {[r \in 1..T |-> [k \in 1..n |-> c]] : c \in range}
         \cup {[r \in 1..T |-> RunThrough(n, range)],
               [r \in 1..T |-> IF r = 1 THEN RunThrough(n, range)
                               ELSE [k \in 1..n |-> (r - 1) % Cardinality(range)]],
               [r \in 1..T |-> IF r = T THEN RunThrough(n, range)
                               ELSE [k \in 1..n |-> (r - 1) % Cardinality(range)]]}

\* A bounded sample of n standard normal draws, as a flat vector: all above
\* the mean, or alternating above and below it.
NoiseVecs(n) ==
    {[p \in 1..n |-> 1], [p \in 1..n |-> IF p % 2 = 1 THEN 1 ELSE -1]}

Defined(pct) == [cls |-> "num", pct |-> pct]

\* np.percentile: one entry per requested percentile; a nan anywhere in the
\* data makes every entry nan.
Percentile(values, pcts) ==
    [q \in 1..Len(pcts) |->
        IF \E k \in 1..Len(values) : IsNaN(values[k]) THEN NaN ELSE Defined(pcts[q])]

\* np.nanpercentile: the nan entries are left out; all-nan data gives nan.
NanPercentile(values, pcts) ==
    [q \in 1..Len(pcts) |->
        IF \A k \in 1..Len(values) : IsNaN(values[k]) THEN NaN ELSE Defined(pcts[q])]

--------------------------------------------------------------------------
(* perturb_values.                                                         *)

\* np.random.normal(loc, scale, size=(K, Nvalues)) from the draws nz.
Normal(loc, scale, K, nz) ==
    [r \in 1..K |-> [k \in 1..Len(loc) |->
        loc[k] + nz[(r - 1) * Len(loc) + k] * scale[k]]]

\* perturb_values(x, y, dx, dy, Nperturb=K) with the draws nx, ny.  A missing
\* dx or dy fails in len(); ndim is the number of axes of the arrays returned.
perturb_values(xs, ys, dxs, dys, K, nx, ny) ==
    IF len(xs) # len(ys)
    THEN [err |-> "AssertionError", draws |-> 0]
    ELSE IF dxs = None \/ dys = None
    THEN [err |-> "TypeError", draws |-> 0]
    ELSE IF len(dxs.v) # len(dys.v) \/ len(xs) # len(dxs.v)
    THEN [err |-> "AssertionError", draws |-> 0]
    ELSE LET xm == Normal(xs, dxs.v, K, nx)
             ym == Normal(ys, dys.v, K, ny)
         IN  IF K = 1
             THEN [err |-> NoError, draws |-> 2, ndim |-> 1, xp |-> xm[1], yp |-> ym[1]]
             ELSE [err |-> NoError, draws |-> 2, ndim |-> 2, xp |-> xm, yp |-> ym]

--------------------------------------------------------------------------
(* The state of one call.                                                  *)

VARIABLES
    func,        \* the function called
    npBound,     \* whether the module-level name np resolves to numpy
    x, y,        \* the caller's data arrays
    xlim, ylim,  \* the caller's censor indicators (kendall, pymckendall)
    dx, dy,      \* the caller's uncertainties, or None
    Nboot, Nperturb,          \* the trial counts, or None
    percentiles, return_dist, \* read when the distribution is reduced
    pc,          \* where the call is: call, mode, boot_loop, perturb_loop, reduce, done
    members,     \* the bootstrap index matrix
    xp, yp,      \* the trial data
    xplim, yplim,\* the censor indicators of the resampled points
    ndim,        \* the number of axes of xp, yp
    i,           \* the loop index: the number of trials already evaluated
    rho, tau,    \* the coefficients collected (rho: pymcspearman, tau: pymckendall)
    pval,        \* the p-values collected
    draws,       \* the calls of the random number generator that drew values
    evals,       \* the calls of the estimator (_spearmanr or kendall)
    warned,      \* whether warnings.warn was called
    pool,        \* the range the bootstrap indices were drawn from
    kargs,       \* the arguments of the last estimator call
    a, b,        \* the pair counters of the last kendall call
    result       \* what the call returned or raised

inputs == <<func, npBound, x, y, xlim, ylim, dx, dy, Nboot, Nperturb>>

vars == <<func, npBound, x, y, xlim, ylim, dx, dy, Nboot, Nperturb,
          percentiles, return_dist, pc, members, xp, yp, xplim, yplim, ndim, i,
          rho, tau, pval, draws, evals, warned, pool, kargs, a, b, result>>

NoResult == [kind |-> "none"]

Raised(e) == [kind |-> "error", err |-> e]

Pair(c, p) == [kind |-> "pair", coef |-> c, pval |-> p]

\* return frho, fpval  /  return frho, fpval, rho, pval
Summary(fc, fp, c, p, withDist) ==
    IF withDist
    THEN [kind |-> "summary", fcoef |-> fc, fpval |-> fp, dist |-> TRUE,
          coef |-> c, pval |-> p]
    ELSE [kind |-> "summary", fcoef |-> fc, fpval |-> fp, dist |-> FALSE]

Args(xs, ys, xl, yl, row) == [x |-> xs, y |-> ys, xlim |-> xl, ylim |-> yl, row |-> row]

\* The options of a driver call explored: the defaults, and one percentile
\* with the distributions asked for.
CallOptions ==
    {[percentiles |-> <<16, 50, 84>>, return_dist |-> FALSE],
     [percentiles |-> <<50>>, return_dist |-> TRUE]}

--------------------------------------------------------------------------
(* The calls the model explores.                                           *)

\* Data of n points: increasing, decreasing, and all equal.
ValueSeqs(n) ==
    {[k \in 1..n |-> k], [k \in 1..n |-> n + 1 - k], [k \in 1..n |-> 1]}

\* The x data of the Monte Carlo drivers: increasing (all points distinct) or
\* all equal.
XSeqs(n) == {[k \in 1..n |-> k], [k \in 1..n |-> 1]}

\* Their y data: of the length of x, or one point longer.
YSeqs(n) == ValueSeqs(n) \cup {[k \in 1..n + 1 |-> k]}

\* Censor indicators of n points: all detections, the first point an upper
\* limit, the last point a lower limit.
Detections(n) == [k \in 1..n |-> 0]

FirstUpper(n) == [k \in 1..n |-> IF k = 1 THEN 1 ELSE 0]

LastLower(n) == [k \in 1..n |-> IF k = n THEN -1 ELSE 0]

LimSeqs(n) == {Detections(n), FirstUpper(n), LastLower(n)}

\* Uncertainties: absent, one per point, or one too many.
\* The censor indicators of the Monte Carlo drivers: none censored, x alone,
\* y alone, both.
LimPairs(n) ==
    {<<Detections(n), Detections(n)>>, <<FirstUpper(n), Detections(n)>>,
     <<Detections(n), LastLower(n)>>, <<FirstUpper(n), LastLower(n)>>}

ErrChoices(n) == {None, Some([k \in 1..n |-> 1]), Some([k \in 1..n + 1 |-> 1])}

CountChoices == {None} \cup {Some(t) : t \in 1..MaxTrials}

Fresh ==
    /\ percentiles = None /\ return_dist = None
    /\ pc = "call"
    /\ members = <<>> /\ xp = <<>> /\ yp = <<>> /\ xplim = <<>> /\ yplim = <<>>
    /\ ndim = 0 /\ i = 0
    /\ rho = <<>> /\ tau = <<>> /\ pval = <<>>
    /\ draws = 0 /\ evals = 0 /\ warned = FALSE
    /\ pool = {}
    /\ kargs = Args(<<>>, <<>>, <<>>, <<>>, 0)
    /\ a = <<>> /\ b = <<>>
    /\ result = NoResult

\* kendall: every assignment of indicators to one variable, against the
\* sampled indicators of the other.
InitKendall ==
    /\ func = "kendall"
    /\ npBound \in BOOLEAN
    /\ \E n \in 0..MaxLen :
         /\ x \in ValueSeqs(n) /\ y \in ValueSeqs(n)
         /\ \/ xlim \in [1..n -> LimVals] /\ ylim \in LimSeqs(n)
            \/ xlim \in LimSeqs(n) /\ ylim \in [1..n -> LimVals]
    /\ dx = None /\ dy = None /\ Nboot = None /\ Nperturb = None

InitPerturbValues ==
    /\ func = "perturb_values"
    /\ npBound = FALSE
    /\ \E n \in 0..MaxLen :
         /\ x \in XSeqs(n) /\ y \in YSeqs(n)
         /\ dx \in ErrChoices(n) \ {None} /\ dy \in ErrChoices(n) \ {None}
    /\ xlim = <<>> /\ ylim = <<>>
    /\ Nboot = None /\ Nperturb \in CountChoices \ {None}

InitSpearman ==
    /\ func = "pymcspearman"
    /\ npBound = FALSE
    /\ \E n \in 0..MaxLen :
         /\ x \in XSeqs(n) /\ y \in YSeqs(n)
         /\ dx \in ErrChoices(n) /\ dy \in ErrChoices(n)
    /\ xlim = <<>> /\ ylim = <<>>
    /\ Nboot \in CountChoices /\ Nperturb \in CountChoices

InitMCKendall ==
    /\ func = "pymckendall"
    /\ npBound \in BOOLEAN
    /\ \E n \in 0..MaxLen :
         /\ x \in XSeqs(n) /\ y \in YSeqs(n)
         /\ \E lp \in LimPairs(n) : xlim = lp[1] /\ ylim = lp[2]
         /\ dx \in ErrChoices(n) /\ dy \in ErrChoices(n)
    /\ Nboot \in CountChoices /\ Nperturb \in CountChoices

Init ==
    /\ InitKendall \/ InitPerturbValues \/ InitSpearman \/ InitMCKendall
    /\ Fresh

--------------------------------------------------------------------------
(* Helpers of the drivers.                                                 *)

\* arr[idx] with an integer index vector (0-based indices).
Take(arr, idx) == [k \in 1..Len(idx) |-> arr[idx[k] + 1]]

\* arr[members] with an index matrix: one row per bootstrap draw.
TakeRows(arr, mem) == [r \in 1..Len(mem) |-> Take(arr, mem[r])]

\* np.random.randint(0, high=high, size=(T, n)): the outcomes.  An empty
\* range is a ValueError; with no element to draw (n = 0) the result is the
\* empty matrix or that error, depending on the numpy at hand.
randint(high, T, n) ==
    IF n = 0
    THEN {[err |-> NoError, m |-> [r \in 1..T |-> <<>>]], [err |-> "ValueError"]}
    ELSE IF high <= 0
    THEN {[err |-> "ValueError"]}
    ELSE {[err |-> NoError, m |-> m] : m \in SampleMatrices(T, n, RandintRange(0, high))}

\* The number of entries of a matrix of indicators that are 0.
CountZero(limM) ==
    SumMat([r \in 1..Len(limM) |-> [k \in 1..Len(limM[r]) |->
                IF limM[r][k] = 0 THEN 1 ELSE 0]])

\* The place of entry (r, k) among the entries selected by limM == 0, in
\* row-major order.
MaskRank(limM, r, k) ==
    SumMat([r2 \in 1..r |-> [k2 \in 1..(IF r2 = r THEN k ELSE Len(limM[r2])) |->
                IF limM[r2][k2] = 0 THEN 1 ELSE 0]])

\* M[limM==0] += nz * scale[members][limM==0]
AddMasked(M, limM, nz, scaleM) ==
    [r \in 1..Len(M) |-> [k \in 1..Len(M[r]) |->
        IF limM[r][k] = 0
        THEN M[r][k] + nz[MaskRank(limM, r, k)] * scaleM[r][k]
        ELSE M[r][k]]]

\* [v]*T + np.random.normal(size=(T, n)) * scale
AddNoise(v, T, nz, scale) ==
    [r \in 1..T |-> [k \in 1..Len(v) |-> v[k] + nz[(r - 1) * Len(v) + k] * scale[k]]]

\* Mutant of ResetCensored: the censored columns are left perturbed.
ResetNothing(pert, orig, lims) == pert

\* pert[:, lims != 0] = orig[lims != 0]
ResetCensored(pert, orig, lims) ==
    [r \in 1..Len(pert) |-> [k \in 1..Len(pert[r]) |->
        IF lims[k] # 0 THEN orig[k] ELSE pert[r][k]]]

\* Mutant of AfterInPlaceAdd: xp shares the caller's buffer (a view), so the
\* in-place addition reaches the caller's array.
AfterInPlaceAddOnView(orig, mem, updated) ==
    [k \in 1..Len(orig) |->
        IF \E r \in 1..Len(mem) : \E c \in 1..Len(mem[r]) : mem[r][c] + 1 = k
        THEN LET r == CHOOSE r \in 1..Len(mem) : \E c \in 1..Len(mem[r]) : mem[r][c] + 1 = k
                 c == CHOOSE c \in 1..Len(mem[r]) : mem[r][c] + 1 = k
             IN  updated[r][c]
        ELSE orig[k]]

\* The caller's array after xp = x[members]; xp[...] += ...: indexing with an
\* integer array copies, so the caller's array keeps its values.
AfterInPlaceAdd(orig, mem, updated) == orig

\* The checks at the head of pymcspearman and pymckendall.
ValidationFails ==
    \/ Nperturb # None /\ dx = None /\ dy = None
    \/ len(x) # len(y)
    \/ dx # None /\ len(dx.v) # len(x)
    \/ dy # None /\ len(dy.v) # len(y)

Raise(e) == result' = Raised(e) /\ pc' = "done"

--------------------------------------------------------------------------
(* kendall and perturb_values called directly.                             *)

KendallCall ==
    /\ pc = "call" /\ func = "kendall"
    /\ LET r == kendall(x, y, xlim, ylim, npBound)
       IN  /\ a' = r.a /\ b' = r.b
           /\ result' = IF r.err # NoError THEN Raised(r.err) ELSE Pair(r.tau, r.pval)
    /\ pc' = "done"
    /\ evals' = evals + 1
    /\ kargs' = Args(x, y, xlim, ylim, 0)
    /\ UNCHANGED <<inputs, percentiles, return_dist, members, xp, yp, xplim, yplim,
                   ndim, i, rho, tau, pval, draws, warned, pool>>

PerturbValuesCall ==
    /\ pc = "call" /\ func = "perturb_values"
    /\ \E nx \in NoiseVecs(Nperturb.v * len(x)) : \E ny \in NoiseVecs(Nperturb.v * len(x)) :
         LET r == perturb_values(x, y, dx, dy, Nperturb.v, nx, ny)
         IN  IF r.err # NoError
             THEN Raise(r.err) /\ UNCHANGED <<xp, yp, ndim, draws>>
             ELSE /\ xp' = r.xp /\ yp' = r.yp /\ ndim' = r.ndim
                  /\ draws' = draws + r.draws
                  /\ result' = [kind |-> "arrays", xp |-> r.xp, yp |-> r.yp]
                  /\ pc' = "done"
    /\ UNCHANGED <<inputs, percentiles, return_dist, members, xplim, yplim, i,
                   rho, tau, pval, evals, warned, pool, kargs, a, b>>

--------------------------------------------------------------------------
(* pymcspearman.                                                           *)

Validate ==
    /\ pc = "call" /\ func \in {"pymcspearman", "pymckendall"}
    /\ IF ValidationFails THEN Raise("ValueError") ELSE pc' = "mode" /\ UNCHANGED result
    /\ UNCHANGED <<inputs, percentiles, return_dist, members, xp, yp, xplim, yplim,
                   ndim, i, rho, tau, pval, draws, evals, warned, pool, kargs, a, b>>

\* The range the bootstrap indices come from: randint(0, high=Nvalues-1).
BootHigh(Nvalues) == Nvalues - 1

SpearmanBootDraw ==
    /\ pc = "mode" /\ func = "pymcspearman" /\ Nboot # None
    /\ \E ro \in randint(BootHigh(len(x)), Nboot.v, len(x)) :
         IF ro.err # NoError
         THEN Raise(ro.err) /\ UNCHANGED <<members, draws, pool>>
         ELSE /\ members' = ro.m
              /\ draws' = draws + 1
              /\ pool' = RandintRange(0, BootHigh(len(x)))
              /\ pc' = "boot_loop"
              /\ UNCHANGED result
    /\ UNCHANGED <<inputs, percentiles, return_dist, xp, yp, xplim, yplim, ndim, i,
                   rho, tau, pval, evals, warned, kargs, a, b>>

SpearmanBootTrial ==
    /\ pc = "boot_loop" /\ func = "pymcspearman"
    /\ LET row == members[i + 1]
           xr  == Take(x, row)
           yr  == Take(y, row)
       IN  IF Nperturb = None
           THEN LET s == _spearmanr(xr, yr)
                IN  /\ xp' = xr /\ yp' = yr
                    /\ rho' = Append(rho, s.rho) /\ pval' = Append(pval, s.pval)
                    /\ kargs' = Args(xr, yr, <<>>, <<>>, i + 1)
                    /\ evals' = evals + 1
                    /\ i' = i + 1
                    /\ pc' = IF i + 1 = Nboot.v THEN "reduce" ELSE "boot_loop"
                    /\ UNCHANGED <<draws, result>>
           ELSE IF dx = None \/ dy = None
           THEN /\ Raise("TypeError")
                /\ xp' = xr /\ yp' = yr
                /\ UNCHANGED <<rho, pval, kargs, evals, i, draws>>
           ELSE \E nx \in NoiseVecs(len(x)) : \E ny \in NoiseVecs(len(x)) :
                  LET pv == perturb_values(xr, yr, Some(Take(dx.v, row)),
                                           Some(Take(dy.v, row)), 1, nx, ny)
                      s  == _spearmanr(pv.xp, pv.yp)
                  IN  /\ xp' = pv.xp /\ yp' = pv.yp
                      /\ draws' = draws + pv.draws
                      /\ rho' = Append(rho, s.rho) /\ pval' = Append(pval, s.pval)
                      /\ kargs' = Args(pv.xp, pv.yp, <<>>, <<>>, i + 1)
                      /\ evals' = evals + 1
                      /\ i' = i + 1
                      /\ pc' = IF i + 1 = Nboot.v THEN "reduce" ELSE "boot_loop"
                      /\ UNCHANGED result
    /\ UNCHANGED <<inputs, percentiles, return_dist, members, xplim, yplim, ndim,
                   tau, warned, pool, a, b>>

SpearmanPerturbDraw ==
    /\ pc = "mode" /\ func = "pymcspearman" /\ Nboot = None /\ Nperturb # None
    /\ \E nx \in NoiseVecs(Nperturb.v * len(x)) : \E ny \in NoiseVecs(Nperturb.v * len(x)) :
         LET pv == perturb_values(x, y, dx, dy, Nperturb.v, nx, ny)
         IN  IF pv.err # NoError
             THEN Raise(pv.err) /\ UNCHANGED <<xp, yp, ndim, draws>>
             ELSE /\ xp' = pv.xp /\ yp' = pv.yp /\ ndim' = pv.ndim
                  /\ draws' = draws + pv.draws
                  /\ pc' = "perturb_loop"
                  /\ UNCHANGED result
    /\ UNCHANGED <<inputs, percentiles, return_dist, members, xplim, yplim, i,
                   rho, tau, pval, evals, warned, pool, kargs, a, b>>

\* xp[i, :] needs two axes: the flattened arrays of Nperturb == 1 have one.
SpearmanPerturbTrial ==
    /\ pc = "perturb_loop" /\ func = "pymcspearman"
    /\ IF ndim = 1
       THEN Raise("IndexError") /\ UNCHANGED <<rho, pval, kargs, evals, i>>
       ELSE LET s == _spearmanr(xp[i + 1], yp[i + 1])
            IN  /\ rho' = Append(rho, s.rho) /\ pval' = Append(pval, s.pval)
                /\ kargs' = Args(xp[i + 1], yp[i + 1], <<>>, <<>>, i + 1)
                /\ evals' = evals + 1
                /\ i' = i + 1
                /\ pc' = IF i + 1 = Nperturb.v THEN "reduce" ELSE "perturb_loop"
                /\ UNCHANGED result
    /\ UNCHANGED <<inputs, percentiles, return_dist, members, xp, yp, xplim, yplim,
                   ndim, tau, draws, warned, pool, a, b>>

SpearmanNeither ==
    /\ pc = "mode" /\ func = "pymcspearman" /\ Nboot = None /\ Nperturb = None
    /\ warned' = TRUE
    /\ LET s == _spearmanr(x, y)
       IN  result' = Pair(s.rho, s.pval)
    /\ kargs' = Args(x, y, <<>>, <<>>, 0)
    /\ evals' = evals + 1
    /\ pc' = "done"
    /\ \E opt \in CallOptions :
         percentiles' = Some(opt.percentiles) /\ return_dist' = Some(opt.return_dist)
    /\ UNCHANGED <<inputs, members, xp, yp, xplim, yplim, ndim, i,
                   rho, tau, pval, draws, pool, a, b>>

SpearmanReduce ==
    /\ pc = "reduce" /\ func = "pymcspearman"
    /\ \E opt \in CallOptions :
         /\ percentiles' = Some(opt.percentiles) /\ return_dist' = Some(opt.return_dist)
         /\ result' = Summary(Percentile(rho, opt.percentiles),
                              Percentile(pval, opt.percentiles), rho, pval, opt.return_dist)
    /\ pc' = "done"
    /\ UNCHANGED <<inputs, members, xp, yp, xplim, yplim, ndim, i, rho, tau, pval,
                   draws, evals, warned, pool, kargs, a, b>>

--------------------------------------------------------------------------
(* pymckendall.                                                            *)

\* np.zeros(T): the preallocated result arrays.
ZeroFloat == [cls |-> "num", S |-> 0, var |-> 0]

np_zeros(T) == [k \in 1..T |-> ZeroFloat]

\* Lines 209-219: the index draw, the resampled arrays and, with Nperturb
\* set, the perturbation of the detections.  The right operand of each
\* product (dx[members], dy[members]) is evaluated after the normal draw.
KendallBootSample ==
    /\ pc = "mode" /\ func = "pymckendall" /\ Nboot # None
    /\ IF ~npBound
       THEN /\ Raise("NameError")
            /\ UNCHANGED <<x, y, tau, pval, members, xp, yp, xplim, yplim, draws, pool>>
       ELSE \E ro \in randint(BootHigh(len(x)), Nboot.v, len(x)) :
         IF ro.err # NoError
         THEN /\ Raise(ro.err)
              /\ tau' = np_zeros(Nboot.v) /\ pval' = np_zeros(Nboot.v)
              /\ UNCHANGED <<x, y, members, xp, yp, xplim, yplim, draws, pool>>
         ELSE LET xl == TakeRows(xlim, ro.m)
                  yl == TakeRows(ylim, ro.m)
                  x0 == TakeRows(x, ro.m)
                  y0 == TakeRows(y, ro.m)
              IN  /\ tau' = np_zeros(Nboot.v) /\ pval' = np_zeros(Nboot.v)
                  /\ members' = ro.m
                  /\ pool' = RandintRange(0, BootHigh(len(x)))
                  /\ xplim' = xl /\ yplim' = yl
                  /\ IF Nperturb = None
                     THEN /\ xp' = x0 /\ yp' = y0
                          /\ draws' = draws + 1
                          /\ pc' = "boot_loop"
                          /\ UNCHANGED <<x, y, result>>
                     ELSE \E nx \in NoiseVecs(CountZero(xl)) : \E ny \in NoiseVecs(CountZero(yl)) :
                            IF dx = None
                            THEN /\ Raise("TypeError")
                                 /\ xp' = x0 /\ yp' = y0
                                 /\ draws' = draws + 2
                                 /\ UNCHANGED <<x, y>>
                            ELSE LET x1 == AddMasked(x0, xl, nx, TakeRows(dx.v, ro.m))
                                 IN  /\ xp' = x1
                                     /\ x' = AfterInPlaceAdd(x, ro.m, x1)
                                     /\ IF dy = None
                                        THEN /\ Raise("TypeError")
                                             /\ yp' = y0
                                             /\ draws' = draws + 3
                                             /\ UNCHANGED y
                                        ELSE LET y1 == AddMasked(y0, yl, ny, TakeRows(dy.v, ro.m))
                                             IN  /\ yp' = y1
                                                 /\ y' = AfterInPlaceAdd(y, ro.m, y1)
                                                 /\ draws' = draws + 3
                                                 /\ pc' = "boot_loop"
                                                 /\ UNCHANGED result
    /\ UNCHANGED <<func, npBound, xlim, ylim, dx, dy, Nboot, Nperturb, percentiles,
                   return_dist, ndim, i, rho, evals, warned, kargs, a, b>>

KendallBootTrial ==
    /\ pc = "boot_loop" /\ func = "pymckendall"
    /\ LET r == kendall(xp[i + 1], yp[i + 1], xplim[i + 1], yplim[i + 1], npBound)
       IN  /\ a' = r.a /\ b' = r.b
           /\ kargs' = Args(xp[i + 1], yp[i + 1], xplim[i + 1], yplim[i + 1], i + 1)
           /\ evals' = evals + 1
           /\ IF r.err # NoError
              THEN Raise(r.err) /\ UNCHANGED <<tau, pval, i>>
              ELSE /\ tau' = [tau EXCEPT ![i + 1] = r.tau]
                   /\ pval' = [pval EXCEPT ![i + 1] = r.pval]
                   /\ i' = i + 1
                   /\ pc' = IF i + 1 = Nboot.v THEN "reduce" ELSE "boot_loop"
                   /\ UNCHANGED result
    /\ UNCHANGED <<inputs, percentiles, return_dist, members, xp, yp, xplim, yplim,
                   ndim, rho, draws, warned, pool>>

\* Lines 225-231: all the data are perturbed (y first), then the columns of
\* the censored points are set back to the data.
KendallPerturbSample ==
    /\ pc = "mode" /\ func = "pymckendall" /\ Nboot = None /\ Nperturb # None
    /\ IF ~npBound
       THEN Raise("NameError") /\ UNCHANGED <<tau, pval, xp, yp, draws>>
       ELSE /\ tau' = np_zeros(Nperturb.v) /\ pval' = np_zeros(Nperturb.v)
            /\ \E nx \in NoiseVecs(Nperturb.v * len(x)) : \E ny \in NoiseVecs(Nperturb.v * len(x)) :
                 IF dy = None
                 THEN Raise("TypeError") /\ draws' = draws + 1 /\ UNCHANGED <<xp, yp>>
                 ELSE IF dx = None
                 THEN /\ Raise("TypeError")
                      /\ draws' = draws + 2
                      /\ yp' = AddNoise(y, Nperturb.v, ny, dy.v)
                      /\ UNCHANGED xp
                 ELSE /\ yp' = ResetCensored(AddNoise(y, Nperturb.v, ny, dy.v), y, ylim)
                      /\ xp' = ResetCensored(AddNoise(x, Nperturb.v, nx, dx.v), x, xlim)
                      /\ draws' = draws + 2
                      /\ pc' = "perturb_loop"
                      /\ UNCHANGED result
    /\ UNCHANGED <<inputs, percentiles, return_dist, members, xplim, yplim, ndim, i,
                   rho, evals, warned, pool, kargs, a, b>>

KendallPerturbTrial ==
    /\ pc = "perturb_loop" /\ func = "pymckendall"
    /\ LET r == kendall(xp[i + 1], yp[i + 1], xlim, ylim, npBound)
       IN  /\ a' = r.a /\ b' = r.b
           /\ kargs' = Args(xp[i + 1], yp[i + 1], xlim, ylim, i + 1)
           /\ evals' = evals + 1
           /\ IF r.err # NoError
              THEN Raise(r.err) /\ UNCHANGED <<tau, pval, i>>
              ELSE /\ tau' = [tau EXCEPT ![i + 1] = r.tau]
                   /\ pval' = [pval EXCEPT ![i + 1] = r.pval]
                   /\ i' = i + 1
                   /\ pc' = IF i + 1 = Nperturb.v THEN "reduce" ELSE "perturb_loop"
                   /\ UNCHANGED result
    /\ UNCHANGED <<inputs, percentiles, return_dist, members, xp, yp, xplim, yplim,
                   ndim, rho, draws, warned, pool>>

KendallNeither ==
    /\ pc = "mode" /\ func = "pymckendall" /\ Nboot = None /\ Nperturb = None
    /\ warned' = TRUE
    /\ LET r == kendall(x, y, xlim, ylim, npBound)
       IN  /\ a' = r.a /\ b' = r.b
           /\ result' = IF r.err # NoError THEN Raised(r.err) ELSE Pair(r.tau, r.pval)
    /\ kargs' = Args(x, y, xlim, ylim, 0)
    /\ evals' = evals + 1
    /\ pc' = "done"
    /\ \E opt \in CallOptions :
         percentiles' = Some(opt.percentiles) /\ return_dist' = Some(opt.return_dist)
    /\ UNCHANGED <<inputs, members, xp, yp, xplim, yplim, ndim, i,
                   rho, tau, pval, draws, pool>>

KendallReduce ==
    /\ pc = "reduce" /\ func = "pymckendall"
    /\ \E opt \in CallOptions :
         /\ percentiles' = Some(opt.percentiles) /\ return_dist' = Some(opt.return_dist)
         /\ result' = Summary(NanPercentile(tau, opt.percentiles),
                              NanPercentile(pval, opt.percentiles), tau, pval,
                              opt.return_dist)
    /\ pc' = "done"
    /\ UNCHANGED <<inputs, members, xp, yp, xplim, yplim, ndim, i, rho, tau, pval,
                   draws, evals, warned, pool, kargs, a, b>>

--------------------------------------------------------------------------

Next ==
    \/ KendallCall
    \/ PerturbValuesCall
    \/ Validate
    \/ SpearmanBootDraw
    \/ SpearmanBootTrial
    \/ SpearmanPerturbDraw
    \/ SpearmanPerturbTrial
    \/ SpearmanNeither
    \/ SpearmanReduce
    \/ KendallBootSample
    \/ KendallBootTrial
    \/ KendallPerturbSample
    \/ KendallPerturbTrial
    \/ KendallNeither
    \/ KendallReduce

Spec == Init /\ [][Next]_vars

--------------------------------------------------------------------------
(* The properties checked.                                                 *)

Drivers == {"pymcspearman", "pymckendall"}

\* The number of trials a randomized call is to evaluate.
TrialCount == IF Nboot # None THEN Nboot.v ELSE Nperturb.v

\* The coefficients the driver at hand collects.
Dist == IF func = "pymcspearman" THEN rho ELSE tau

\* The point of the caller's data that position k of trial row r was taken
\* from (1-based).
SourcePoint(r, k) == IF Nboot # None THEN members[r][k] + 1 ELSE k

\* The rule table both pair counters are documented to follow.
RuleTable(vals, lims, r, c) ==
    IF vals[r] = vals[c] THEN 0
    ELSE IF vals[r] > vals[c] /\ lims[r] \in {0, -1} /\ lims[c] \in {0, 1} THEN -1
    ELSE IF vals[r] < vals[c] /\ lims[r] \in {0, 1} /\ lims[c] \in {0, -1} THEN 1
    ELSE 0

\* C1: after kendall has built its pair counters, every entry b[i,j] follows
\* from (y, ylim) by the rule table that gives a[i,j] from (x, xlim): 0 for
\* equal values, -1 for a definite "greater", +1 for a definite "less", 0
\* otherwise.  (Violated: the +1 branch of b ignores ylim[i] = +1.)
C1_BFollowsRuleTableOfA ==
    \A r \in 1..Len(b) : \A c \in 1..Len(b) :
        /\ a[r][c] = RuleTable(kargs.x, kargs.xlim, r, c)
        /\ b[r][c] = RuleTable(kargs.y, kargs.ylim, r, c)

\* C2: once the bootstrap indices are drawn, in pymcspearman and pymckendall,
\* they come from the full range 0..N-1: none lies outside it and the range
\* drawn from includes every index up to the last one, N-1.  (Violated: the
\* range drawn from is 0..N-2.)
C2_IndicesFromFullRange ==
    (func \in Drivers /\ pc = "boot_loop") =>
        /\ \A r \in 1..Len(members) : \A k \in 1..Len(members[r]) :
               members[r][k] \in 0..(len(x) - 1)
        /\ pool = 0..(len(x) - 1)

\* C3: whenever Nperturb is set and dx or dy is missing, the call has been
\* rejected by the validation with an argument error (ValueError) by the
\* time validation is over.  (Violated: a call with only one of them passes.)
C3_PerturbNeedsBothErrors ==
    (func \in Drivers /\ pc # "call" /\ Nperturb # None /\ (dx = None \/ dy = None)) =>
        result = Raised("ValueError")

\* C4: a call of a driver that ends in an argument error (a length mismatch,
\* perturbation without dx and dy) or in the degenerate-input error of
\* kendall has consumed no random draw before it fails; stated for data of
\* at least two points, where every draw yields values.  (Violated: the
\* indices, and the normal draws, are drawn first.)
C4_ErrorsBeforeAnyDraw ==
    (func \in Drivers /\ len(x) >= 2 /\ result.kind = "error"
       /\ result.err \in {"ValueError", "TypeError", "ZeroDivisionError"}) =>
        draws = 0

\* C5: when a randomized call returns, its trials that came out nan are in
\* the distribution as nan and the percentiles are taken over the other
\* entries: with at least one defined trial no entry of the summary is nan.
\* (Violated: pymcspearman reduces with the percentile that propagates nan.)
C5_SummaryIgnoresNaN ==
    (func \in Drivers /\ result.kind = "summary") =>
        /\ (\E k \in 1..Len(Dist) : ~IsNaN(Dist[k])) =>
               \A q \in 1..Len(result.fcoef) : ~IsNaN(result.fcoef[q])
        /\ (\E k \in 1..Len(pval) : ~IsNaN(pval[k])) =>
               \A q \in 1..Len(result.fpval) : ~IsNaN(result.fpval[q])

\* A randomized call whose arguments are in order: validation passes, dx and
\* dy are there when perturbation is asked for, the data have at least three
\* points and, for pymckendall, the name np resolves.
WellFormedRandomized ==
    /\ func \in Drivers
    /\ Nboot # None \/ Nperturb # None
    /\ ~ValidationFails
    /\ Nperturb # None => (dx # None /\ dy # None)
    /\ len(x) >= 3
    /\ func = "pymckendall" => npBound

\* C6: for every positive Nboot and/or Nperturb, the value 1 included, a
\* randomized call of either driver evaluates exactly Nboot trials when Nboot
\* is set and exactly Nperturb trials otherwise, and returns distributions of
\* that length and summaries with one entry per percentile.  (Violated:
\* pymcspearman with only Nperturb = 1 ends in an IndexError.)
C6_TrialCountAndLengths ==
    (WellFormedRandomized /\ pc = "done") =>
        /\ result.kind = "summary"
        /\ evals = TrialCount
        /\ Len(Dist) = TrialCount /\ Len(pval) = TrialCount
        /\ Len(result.fcoef) = Len(percentiles.v)
        /\ Len(result.fpval) = Len(percentiles.v)

\* C7: kendall on fewer than 3 points never returns a (tau, p-value) pair: the
\* call ends in an exception, the ZeroDivisionError of the variance whenever
\* the function body runs; and a call of pymckendall on fewer than 3 points
\* ends in an exception in every mode.
C7_KendallRejectsFewerThanThree ==
    /\ (func = "kendall" /\ pc = "done" /\ len(x) < 3) =>
           /\ result.kind = "error"
           /\ npBound => result.err = "ZeroDivisionError"
    /\ (func = "pymckendall" /\ pc = "done" /\ len(x) < 3) => result.kind = "error"
    /\ (func = "pymckendall" /\ evals > 0 /\ Len(kargs.x) < 3) => result.kind = "error"

C7_Witness ==
    /\ func = "kendall" /\ pc = "done" /\ len(x) = 2 /\ npBound
    /\ result = Raised("ZeroDivisionError")

\* C8: with neither Nboot nor Nperturb set and validation passed, a driver
\* (pymckendall on at least 3 points) does not raise: it warns, draws nothing,
\* calls the estimator once on the caller's data and returns that pair, not a
\* summary, whatever return_dist is.  (Violated: pymckendall ends in a
\* NameError, the module never binds the name np.)
C8_NeitherModeReturnsPair ==
    (func \in Drivers /\ pc = "done" /\ Nboot = None /\ Nperturb = None
       /\ ~ValidationFails /\ (func = "pymckendall" => len(x) >= 3)) =>
        /\ result.kind = "pair"
        /\ warned /\ draws = 0 /\ evals = 1
        /\ kargs = Args(x, y, xlim, ylim, 0)

\* C9: in pymckendall with Nperturb set (alone or with Nboot), at every trial
\* and every position the censor indicators handed to kendall are those of
\* the point the position was taken from, and a value whose own indicator is
\* not 0 reaches kendall equal to that point's value.
C9_CensoredValuesUnperturbed ==
    (func = "pymckendall" /\ Nperturb # None /\ kargs.row > 0) =>
        \A k \in 1..Len(kargs.x) :
            LET src == SourcePoint(kargs.row, k)
            IN  /\ kargs.xlim[k] = xlim[src]
                /\ kargs.ylim[k] = ylim[src]
                /\ xlim[src] # 0 => kargs.x[k] = x[src]
                /\ ylim[src] # 0 => kargs.y[k] = y[src]

C9_Witness ==
    /\ func = "pymckendall" /\ Nboot # None /\ Nperturb # None /\ kargs.row > 0
    /\ \E k \in 1..Len(kargs.x) : xlim[SourcePoint(kargs.row, k)] # 0
    /\ \E k \in 1..Len(kargs.x) : kargs.x[k] # x[SourcePoint(kargs.row, k)]
    /\ result.kind = "summary"

\* C10: no step of a call of kendall, perturb_values, pymcspearman or
\* pymckendall, returning or raising, changes the caller's x, y, dx, dy, xlim
\* or ylim.
C10_InputsReadOnly ==
    [][/\ x' = x /\ y' = y /\ dx' = dx /\ dy' = dy
       /\ xlim' = xlim /\ ylim' = ylim]_vars

C10_Witness ==
    /\ func = "pymckendall" /\ Nboot # None /\ Nperturb # None
    /\ result.kind = "summary"
    /\ xp # TakeRows(x, members) /\ yp # TakeRows(y, members)

====
